---- MODULE Spec2Model ----
(***************************************************************************)
(* Model of weather-cli (src/main.go): one run of main(), from flag        *)
(* dispatch through location resolution, the transport calls, JSON         *)
(* decoding, index selection and report rendering.                         *)
(*                                                                         *)
(* Numbers that are float64 in the program are modelled in fixed point:    *)
(* timezone_offset in half seconds, temperatures and wind gust in          *)
(* thousandths, latitude/longitude as whole degrees.  Strings read from    *)
(* the terminal are sequences of one-character strings.                    *)
(***************************************************************************)
EXTENDS Integers, Sequences, FiniteSets, TLC

VARIABLES
    auto, search, lat, lon,  \* the parsed flags (main.go:324-329)
    hostTZ,                  \* UTC offset of the host's local zone, seconds
    pc,                      \* position of the run inside main and its callees
    comp,                    \* the component whose fetch is in progress
    status,                  \* "running", "done", "exited" (os.Exit) or "panic"
    failure,                 \* failure class that ended the run, or "none"
    exitCode,                \* process exit code, -1 while running
    clientOpen, bodyOpen,    \* the client holds a connection; a response body is open
    outstanding,             \* network calls in flight
    calls,                   \* network calls issued so far, in order
    body,                    \* last response body returned by fetch
    coord,                   \* coordinate resolved for Weather Fetch
    candidates,              \* searchedLocations.Lists
    text,                    \* trimmed text read from stdin
    snap,                    \* decoded weatherData
    out                      \* lines written to stdout, in order

vars == <<auto, search, lat, lon, hostTZ, pc, comp, status, failure, exitCode,
          clientOpen, bodyOpen, outstanding, calls, body, coord, candidates,
          text, snap, out>>

(***************************************************************************)
(* Bounds of the model                                                     *)
(***************************************************************************)
MaxCand == 2      \* longest candidate list a search body carries
MaxTextLen == 2   \* longest line typed at the selection prompt

(***************************************************************************)
(* Input domains                                                           *)
(***************************************************************************)
Alphabet == {"0", "1", "2", "3", "-", "+", " ", "x"}

Lines == UNION {[1..n -> Alphabet] : n \in 0..MaxTextLen}

SearchTexts == {"", "Paris", "Par\nis"}

AxisValues == {0, 5}

HostZones == {0, 19800}

NoCoord == <<>>

IPCoords == {<<27, 85>>, <<0, 0>>}

CandCoord(k) == <<40 + k, 2 + k>>

CandidateLists == {[k \in 1..n |-> [Coord |-> CandCoord(k)]] : n \in 0..MaxCand}

(***************************************************************************)
(* Text handling of the selection prompt (main.go:348-351)                 *)
(***************************************************************************)
IsSpace(c) == c \in {" ", "\n", "\t", "\r"}

RECURSIVE TrimLeft(_)
TrimLeft(s) ==
    IF s # <<>> /\ IsSpace(Head(s)) THEN TrimLeft(Tail(s)) ELSE s

RECURSIVE TrimRight(_)
TrimRight(s) ==
    IF s # <<>> /\ IsSpace(s[Len(s)]) THEN TrimRight(SubSeq(s, 1, Len(s) - 1)) ELSE s

\* strings.TrimSpace: drop leading and trailing white space
TrimSpace(s) == TrimRight(TrimLeft(s))

IsDigit(c) == c \in {"0", "1", "2", "3", "4", "5", "6", "7", "8", "9"}

DigitVal(c) ==
    CASE c = "0" -> 0 [] c = "1" -> 1 [] c = "2" -> 2 [] c = "3" -> 3
      [] c = "4" -> 4 [] c = "5" -> 5 [] c = "6" -> 6 [] c = "7" -> 7
      [] c = "8" -> 8 [] c = "9" -> 9

RECURSIVE DigitsValue(_, _)
DigitsValue(s, acc) ==
    IF s = <<>> THEN acc ELSE DigitsValue(Tail(s), acc * 10 + DigitVal(Head(s)))

\* strconv.Atoi: an optional sign followed by one or more decimal digits;
\* anything else is an error.  The result is [err, n].
Atoi(s) ==
    LET signed == s # <<>> /\ Head(s) \in {"+", "-"}
        digits == IF signed THEN Tail(s) ELSE s
    IN  IF digits = <<>> \/ \E i \in 1..Len(digits) : ~IsDigit(digits[i])
        THEN [err |-> TRUE, n |-> 0]
        ELSE [err |-> FALSE,
              n   |-> IF signed /\ Head(s) = "-"
                      THEN 0 - DigitsValue(digits, 0)
                      ELSE DigitsValue(digits, 0)]

\* The guard of main.go:351 that rejects the chosen index
InvalidIndexNoLower(err, chosenIndex, n) == err \/ chosenIndex > n

InvalidIndex(err, chosenIndex, n) == err \/ chosenIndex > n \/ chosenIndex <= 0

(***************************************************************************)
(* Time and number formatting used by weatherData.print                    *)
(***************************************************************************)
\* int(f) of a float64 held in half units: truncation toward zero
IntOfHalves(h) == IF h >= 0 THEN h \div 2 ELSE 0 - ((0 - h) \div 2)

\* Proleptic Gregorian date <<year, month, day>> of a day number counted
\* from 1970-01-01, as Time.Format("2006-01-02") prints it
CivilFromDays(z) ==
    LET zz  == z + 719468
        era == zz \div 146097
        doe == zz - era * 146097
        yoe == (doe - doe \div 1460 + doe \div 36524 - doe \div 146096) \div 365
        doy == doe - (365 * yoe + yoe \div 4 - yoe \div 100)
        mp  == (5 * doy + 2) \div 153
        d   == doy - (153 * mp + 2) \div 5 + 1
        m   == IF mp < 10 THEN mp + 3 ELSE mp - 9
        y   == yoe + era * 400 + (IF m <= 2 THEN 1 ELSE 0)
    IN  <<y, m, d>>

\* Wall clock <<hour, minute, second>> as Time.Format("15:04:05") prints it
ClockOf(secs) ==
    LET sod == secs % 86400
    IN  <<sod \div 3600, (sod % 3600) \div 60, sod % 60>>

\* The zone part of the "MST" layout: the zone's name, or the numeric
\* offset <<sign, hours, minutes>> when the name is empty
ZoneDigits(loc) ==
    IF loc.name # "" THEN <<>>
    ELSE LET mins == (IF loc.offset < 0 THEN 0 - loc.offset ELSE loc.offset) \div 60
         IN  <<IF loc.offset < 0 THEN 0 - 1 ELSE 1, mins \div 60, mins % 60>>

\* time.Unix(sec, 0).In(loc): the instant together with the zone it is shown in
InZone(sec, loc) == [unix |-> sec, loc |-> loc]

FormatDate(t) == CivilFromDays((t.unix + t.loc.offset) \div 86400)

FormatTime(t) == ClockOf(t.unix + t.loc.offset) \o ZoneDigits(t.loc)

\* "%.2f" of a value held in thousandths: <<sign, whole part, hundredths>>
Fmt2(x) ==
    LET a  == IF x < 0 THEN 0 - x ELSE x
        q  == a \div 10
        r  == a % 10
        h  == IF r > 5 \/ (r = 5 /\ q % 2 = 1) THEN q + 1 ELSE q
    IN  <<IF x < 0 THEN 0 - 1 ELSE 1, h \div 100, h % 100>>

\* weatherIconEmojis lookup: a missing key yields the empty string
weatherIconEmojis(icon) ==
    CASE icon = "01d" -> "sun"
      [] icon = "01n" -> "moon"
      [] icon = "02d" -> "sun behind small cloud"
      [] icon \in {"02n", "03d"} -> "sun behind large cloud"
      [] icon \in {"03n", "04d", "04n"} -> "cloud"
      [] icon \in {"09d", "10d"} -> "sun behind rain cloud"
      [] icon \in {"09n", "10n"} -> "cloud with rain"
      [] icon \in {"11d", "11n"} -> "cloud with lightning and rain"
      [] icon \in {"13d", "13n"} -> "cloud with snow"
      [] icon \in {"50d", "50n"} -> "fog"
      [] OTHER -> ""

Line(label, txt, val) == [label |-> label, txt |-> txt, val |-> val]

(***************************************************************************)
(* Response bodies the three services can return                           *)
(***************************************************************************)
\* the zero value of weatherData: what json.Unmarshal leaves when the body
\* is a JSON object that carries none of the fields
ZeroSnapshot ==
    [Lat |-> 0, Lon |-> 0, Timezone |-> "", TimezoneOffset |-> 0,
     Dt |-> 0, Sunrise |-> 0, Sunset |-> 0, Temp |-> 0, FeelsLike |-> 0,
     Pressure |-> 0, Humidity |-> 0, DewPoint |-> 0, UVI |-> 0, Clouds |-> 0,
     Visibility |-> 0, WindSpeed |-> 0, WindDeg |-> 0, WindGust |-> 0,
     Weather |-> <<>>]

TimezoneOffsets == {0, 7200, 7201, 0 - 7201}   \* half seconds

Timestamps == {0, 1700000000}

WindGusts == {0, 4, 3500, 0 - 1500}            \* thousandths of m/s

WeatherLists == {<<>>, <<"02d">>, <<"99z">>, <<"01n", "10d">>}

ZoneNames == {"", "Europe/Paris"}

Snapshots ==
    {[ZeroSnapshot EXCEPT !.Lat = 48, !.Lon = 2, !.Timezone = nm,
                          !.TimezoneOffset = off, !.Dt = dt,
                          !.Sunrise = dt - 21600, !.Sunset = dt + 21599,
                          !.Temp = 18500, !.FeelsLike = 17255,
                          !.Pressure = 1013, !.Humidity = 60,
                          !.DewPoint = 10500, !.UVI = 3210, !.Clouds = 20,
                          !.Visibility = 10000, !.WindSpeed = 4120,
                          !.WindDeg = 270, !.WindGust = g, !.Weather = w] :
        nm \in ZoneNames, off \in TimezoneOffsets, dt \in Timestamps,
        g \in WindGusts, w \in WeatherLists}
    \cup {ZeroSnapshot}

EmptyBody == [json |-> FALSE, raw |-> "", ip |-> NoCoord, list |-> <<>>, w |-> ZeroSnapshot]

\* a body json.Unmarshal rejects
GarbageBody == [EmptyBody EXCEPT !.raw = "<html>502</html>"]

Bodies(c) ==
    {GarbageBody} \cup
    CASE c = "ip" ->
           {[EmptyBody EXCEPT !.json = TRUE, !.raw = "ipinfo", !.ip = k] : k \in IPCoords}
      [] c = "search" ->
           {[EmptyBody EXCEPT !.json = TRUE, !.raw = "find", !.list = l] : l \in CandidateLists}
      [] c = "weather" ->
           {[EmptyBody EXCEPT !.json = TRUE, !.raw = "weather", !.w = sn] : sn \in Snapshots}

\* http.NewRequest rejects a URL that carries a control character; the only
\* variable text in a URL that can carry one is the search query (main.go:214)
ValidURL(c, q) == ~(c = "search" /\ q = "Par\nis")

(***************************************************************************)
(* Initial state: flags parsed, nothing done yet (main.go:324-329)         *)
(***************************************************************************)
Init ==
    /\ auto \in BOOLEAN
    /\ search \in SearchTexts
    /\ lat \in AxisValues
    /\ lon \in AxisValues
    /\ hostTZ \in HostZones
    /\ pc = "main"
    /\ comp = "none"
    /\ status = "running"
    /\ failure = "none"
    /\ exitCode = 0 - 1
    /\ clientOpen = FALSE
    /\ bodyOpen = FALSE
    /\ outstanding = 0
    /\ calls = <<>>
    /\ body = EmptyBody
    /\ coord = NoCoord
    /\ candidates = <<>>
    /\ text = <<>>
    /\ snap = ZeroSnapshot
    /\ out = <<>>

Flags == <<auto, search, lat, lon, hostTZ>>

\* os.Exit(code): the process ends at once; deferred calls do not run
Exit(code, class, msgs) ==
    /\ status' = "exited"
    /\ failure' = class
    /\ exitCode' = code
    /\ pc' = "exited"
    /\ out' = out \o msgs

\* exit codes passed to os.Exit by each component for each failure class
ExitCodeOfStdinAsSelection(c, class) ==
    CASE class = "TransportBuildError" -> 1
      [] class = "TransportSendError" -> 2
      [] class = "TransportReadError" -> 3
      [] class = "DecodeError" -> IF c = "ip" THEN 10 ELSE 4
      [] class = "StdinReadError" -> 8
      [] class = "InvalidSelection" -> 8

ExitCodeOf(c, class) ==
    CASE class = "TransportBuildError" -> 1
      [] class = "TransportSendError" -> 2
      [] class = "TransportReadError" -> 3
      [] class = "DecodeError" -> IF c = "ip" THEN 10 ELSE 4
      [] class = "StdinReadError" -> 7
      [] class = "InvalidSelection" -> 8

(***************************************************************************)
(* main: intent dispatch                                                   *)
(***************************************************************************)
IntentSearchFirst(a, s, la, lo) ==
    IF s # "" THEN "search"
    ELSE IF a THEN "auto"
    ELSE IF la # 0 /\ lo # 0 THEN "coord"
    ELSE "usage"

Intent(a, s, la, lo) ==
    IF a THEN "auto"
    ELSE IF s # "" THEN "search"
    ELSE IF la # 0 /\ lo # 0 THEN "coord"
    ELSE "usage"

Dispatch ==
    /\ pc = "main"
    /\ LET intent == Intent(auto, search, lat, lon) IN
       CASE intent = "auto" ->
              /\ comp' = "ip"
              /\ pc' = "fetch"
              /\ out' = Append(out, Line("[@] Fetching your coordinates", "", <<>>))
              /\ UNCHANGED <<coord, status, exitCode>>
         [] intent = "search" ->
              /\ comp' = "search"
              /\ pc' = "fetch"
              /\ out' = Append(out, Line("[@] Searching for", search, <<>>))
              /\ UNCHANGED <<coord, status, exitCode>>
         [] intent = "coord" ->
              /\ coord' = <<lat, lon>>
              /\ comp' = "weather"
              /\ pc' = "fetch"
              /\ out' = Append(out, Line("[@] Searching for weather", "", <<>>))
              /\ UNCHANGED <<status, exitCode>>
         [] intent = "usage" ->
              /\ out' = Append(out, Line("Usage", "", <<>>))
              /\ pc' = "done"
              /\ status' = "done"
              /\ exitCode' = 0
              /\ UNCHANGED <<comp, coord>>
    /\ UNCHANGED <<Flags, failure, clientOpen, bodyOpen, outstanding, calls,
                   body, candidates, text, snap>>

(***************************************************************************)
(* fetch: one GET, step by step                                            *)
(***************************************************************************)
\* lines 176-187: the client is created, its release deferred, the request
\* built; the client holds no connection yet
FetchBuild ==
    /\ pc = "fetch"
    /\ clientOpen' = clientOpen
    /\ IF ValidURL(comp, search)
       THEN /\ pc' = "send"
            /\ UNCHANGED <<status, failure, exitCode, out>>
       ELSE Exit(ExitCodeOf(comp, "TransportBuildError"), "TransportBuildError",
                 <<Line("Failed to create a new request.", "", <<>>)>>)
    /\ UNCHANGED <<Flags, comp, bodyOpen, outstanding, calls, body, coord,
                   candidates, text, snap>>

\* line 190: client.Do dials a connection and puts the request on the wire
FetchSend ==
    /\ pc = "send"
    /\ calls' = Append(calls, comp)
    /\ outstanding' = outstanding + 1
    /\ clientOpen' = TRUE
    /\ pc' = "await"
    /\ UNCHANGED <<Flags, comp, status, failure, exitCode, bodyOpen,
                   body, coord, candidates, text, snap, out>>

\* lines 191-195: client.Do fails (no route, TLS error, timeout); the
\* transport drops the failed connection itself and there is no response
FetchSendFail ==
    /\ pc = "await"
    /\ outstanding' = outstanding - 1
    /\ clientOpen' = FALSE
    /\ Exit(ExitCodeOf(comp, "TransportSendError"), "TransportSendError",
            <<Line("Failed to send request to", "", <<>>)>>)
    /\ UNCHANGED <<Flags, comp, bodyOpen, calls, body, coord,
                   candidates, text, snap>>

\* lines 190-198: a response arrives (any status code); closing its body is deferred
FetchResponse ==
    /\ pc = "await"
    /\ bodyOpen' = TRUE
    /\ pc' = "read"
    /\ UNCHANGED <<Flags, comp, status, failure, exitCode, clientOpen,
                   outstanding, calls, body, coord, candidates, text, snap, out>>

\* lines 200-205: io.ReadAll fails
FetchReadFail ==
    /\ pc = "read"
    /\ outstanding' = outstanding - 1
    /\ Exit(ExitCodeOf(comp, "TransportReadError"), "TransportReadError",
            <<Line("Failed to read response body", "", <<>>)>>)
    /\ UNCHANGED <<Flags, comp, clientOpen, bodyOpen, calls, body, coord,
                   candidates, text, snap>>

\* lines 200-208: the body is read and returned; the deferred calls run
FetchReturn ==
    /\ pc = "read"
    /\ \E b \in Bodies(comp) : body' = b
    /\ bodyOpen' = FALSE
    /\ clientOpen' = FALSE
    /\ outstanding' = outstanding - 1
    /\ pc' = "decode"
    /\ UNCHANGED <<Flags, comp, status, failure, exitCode, calls, coord,
                   candidates, text, snap, out>>

(***************************************************************************)
(* The three decoders                                                      *)
(***************************************************************************)
DecodeFailure(c, withBody) ==
    Exit(ExitCodeOf(c, "DecodeError"), "DecodeError",
         <<Line(IF c = "ip" THEN "Failed to parse IP info"
                ELSE "Failed to marshal response to JSON", "", <<>>),
           Line("error", "", <<>>)>>
         \o (IF withBody THEN <<Line("RawBody", body.raw, <<>>)>> ELSE <<>>))

\* fetchUserCoordinates, lines 306-314, and the entry of findWeather
DecodeIP ==
    /\ pc = "decode" /\ comp = "ip"
    /\ IF body.json
       THEN /\ coord' = body.ip
            /\ comp' = "weather"
            /\ pc' = "fetch"
            /\ out' = Append(out, Line("[@] Searching for weather", "", <<>>))
            /\ UNCHANGED <<status, failure, exitCode>>
       ELSE /\ DecodeFailure("ip", FALSE)
            /\ UNCHANGED <<coord, comp>>
    /\ UNCHANGED <<Flags, clientOpen, bodyOpen, outstanding, calls, body,
                   candidates, text, snap>>

\* locationSearchResult.print, lines 231-241
PrintList(lists) ==
    <<Line("Total available locations", "", <<Len(lists)>>)>>
    \o [i \in 1..Len(lists) |-> Line("candidate", "", <<i>> \o lists[i].Coord)]

\* findCoordinate, lines 219-228, then main lines 336-339
DecodeSearch ==
    /\ pc = "decode" /\ comp = "search"
    /\ IF body.json
       THEN /\ candidates' = body.list
            /\ pc' = "stdin"
            /\ out' = out \o PrintList(body.list)
                          \o <<Line("Choose searched index: ", "", <<>>)>>
            /\ UNCHANGED <<status, failure, exitCode>>
       ELSE /\ DecodeFailure("search", TRUE)
            /\ UNCHANGED candidates
    /\ UNCHANGED <<Flags, comp, clientOpen, bodyOpen, outstanding, calls, body,
                   coord, text, snap>>

DecodeWeatherAndRenderAnyway ==
    /\ pc = "decode" /\ comp = "weather"
    /\ snap' = body.w
    /\ pc' = "render"
    /\ IF body.json
       THEN out' = out
       ELSE out' = out \o <<Line("Failed to marshal response to JSON", "", <<>>)>>
    /\ UNCHANGED <<status, failure, exitCode>>
    /\ UNCHANGED <<Flags, comp, clientOpen, bodyOpen, outstanding, calls, body,
                   coord, candidates, text>>

\* findWeather, lines 252-261
DecodeWeather ==
    /\ pc = "decode" /\ comp = "weather"
    /\ IF body.json
       THEN /\ snap' = body.w
            /\ pc' = "render"
            /\ UNCHANGED <<status, failure, exitCode, out>>
       ELSE /\ DecodeFailure("weather", TRUE)
            /\ UNCHANGED snap
    /\ UNCHANGED <<Flags, comp, clientOpen, bodyOpen, outstanding, calls, body,
                   coord, candidates, text>>

(***************************************************************************)
(* Selection                                                               *)
(***************************************************************************)
\* main lines 341-348: one line is read; end of input before the newline is
\* an error, and ReadString then still returns what it had read
ReadStdin ==
    /\ pc = "stdin"
    /\ \E line \in Lines, eof \in BOOLEAN :
          IF eof
          THEN /\ Exit(ExitCodeOf("search", "StdinReadError"), "StdinReadError",
                       <<Line("Failed to read from stdin", "", <<>>)>>)
               /\ text' = line
          ELSE /\ text' = TrimSpace(Append(line, "\n"))
               /\ pc' = "select"
               /\ UNCHANGED <<status, failure, exitCode, out>>
    /\ UNCHANGED <<Flags, comp, clientOpen, bodyOpen, outstanding, calls, body,
                   coord, candidates, snap>>

\* a Go run-time panic: the process dies with exit status 2
Panic(class) ==
    /\ status' = "panic"
    /\ failure' = class
    /\ exitCode' = 2
    /\ pc' = "panic"

\* main lines 350-356, and the entry of findWeather
Select ==
    /\ pc = "select"
    /\ LET r == Atoi(text) IN
       IF InvalidIndex(r.err, r.n, Len(candidates))
       THEN /\ Exit(ExitCodeOf("search", "InvalidSelection"), "InvalidSelection",
                    <<Line("Provided index is invalid or out of bounds.", "", <<>>)>>)
            /\ UNCHANGED <<coord, comp>>
       ELSE IF r.n - 1 \in 0..(Len(candidates) - 1)
       THEN /\ coord' = candidates[(r.n - 1) + 1].Coord
            /\ comp' = "weather"
            /\ pc' = "fetch"
            /\ out' = Append(out, Line("[@] Searching for weather", "", <<>>))
            /\ UNCHANGED <<status, failure, exitCode>>
       ELSE /\ Panic("IndexPanic")
            /\ UNCHANGED <<coord, comp, out>>
    /\ UNCHANGED <<Flags, clientOpen, bodyOpen, outstanding, calls, body,
                   candidates, text, snap>>

(***************************************************************************)
(* weatherData.print                                                       *)
(***************************************************************************)
\* line 266 replaced by the host's zone
locationLocal(w, host) == [name |-> "Local", offset |-> host]

\* line 266: time.FixedZone(w.Timezone, int(w.TimezoneOffset))
location(w, host) == [name |-> w.Timezone, offset |-> IntOfHalves(w.TimezoneOffset)]

ShowGustNonNegative(g) == g >= 0

\* line 294: the condition under which the gust line is printed
ShowGust(g) == g > 0

\* lines 268-269
HeaderLines(w) ==
    <<Line("Location", w.Timezone, <<w.Lat, w.Lon>>),
      Line("Timezone Offset", "", <<IntOfHalves(w.TimezoneOffset)>>)>>

\* lines 280-298, for a snapshot whose condition list is not empty
CurrentLines(w, host) ==
    LET loc == location(w, host)
        dtTime == InZone(w.Dt, loc)
        sunriseTime == InZone(w.Sunrise, loc)
        sunsetTime == InZone(w.Sunset, loc)
    IN  <<Line("Current Weather", weatherIconEmojis(w.Weather[1]), <<>>),
          Line("Time", loc.name, FormatDate(dtTime) \o FormatTime(dtTime)),
          Line("Sunrise", loc.name, FormatTime(sunriseTime)),
          Line("Sunset", loc.name, FormatTime(sunsetTime)),
          Line("Temperature", "C", Fmt2(w.Temp)),
          Line("Feels Like", "C", Fmt2(w.FeelsLike)),
          Line("Pressure", "hPa", <<w.Pressure>>),
          Line("Humidity", "%", <<w.Humidity>>),
          Line("Dew Point", "C", Fmt2(w.DewPoint)),
          Line("UV Index", "", Fmt2(w.UVI)),
          Line("Clouds", "%", <<w.Clouds>>),
          Line("Visibility", "m", <<w.Visibility>>),
          Line("Wind Speed", "m/s", Fmt2(w.WindSpeed)),
          Line("Wind Degrees", "deg", <<w.WindDeg>>)>>
        \o (IF ShowGust(w.WindGust)
            THEN <<Line("Wind Gust", "m/s", Fmt2(w.WindGust))>>
            ELSE <<>>)
        \o <<Line("-----------------------", "", <<>>)>>

\* main lines 332/356/359: print() on the decoded snapshot.  Indexing
\* current.Weather[0] of an empty list panics after the header is written.
Render ==
    /\ pc = "render"
    /\ IF Len(snap.Weather) > 0
       THEN /\ out' = out \o HeaderLines(snap) \o CurrentLines(snap, hostTZ)
            /\ pc' = "done"
            /\ status' = "done"
            /\ exitCode' = 0
            /\ UNCHANGED failure
       ELSE /\ out' = out \o HeaderLines(snap)
            /\ Panic("IndexPanic")
    /\ UNCHANGED <<Flags, comp, clientOpen, bodyOpen, outstanding, calls, body,
                   coord, candidates, text, snap>>

Next ==
    \/ Dispatch
    \/ FetchBuild
    \/ FetchSend
    \/ FetchSendFail
    \/ FetchResponse
    \/ FetchReadFail
    \/ FetchReturn
    \/ DecodeIP
    \/ DecodeSearch
    \/ DecodeWeather
    \/ ReadStdin
    \/ Select
    \/ Render

Spec == Init /\ [][Next]_vars

(***************************************************************************)
(* Vocabulary of the properties                                            *)
(***************************************************************************)
Components == {"ip", "search", "weather"}

FailureClasses ==
    {"TransportBuildError", "TransportSendError", "TransportReadError",
     "DecodeError", "InvalidSelection", "StdinReadError"}

Printed(label) == \E i \in 1..Len(out) : out[i].label = label

LineOf(label) == out[CHOOSE i \in 1..Len(out) : out[i].label = label]

Issued(c) == \E i \in 1..Len(calls) : calls[i] = c

SearchRun == ~auto /\ search # ""

Chosen == Atoi(text)

ValidChoice == ~Chosen.err /\ Chosen.n >= 1 /\ Chosen.n <= Len(candidates)

(***************************************************************************)
(* C1: in a search run the selection succeeds exactly when the typed text  *)
(* is an integer i with 1 <= i <= N; then the coordinate handed to Weather *)
(* Fetch is that of candidate i; otherwise the run ends with               *)
(* InvalidSelection, no weather request is made and no element outside the *)
(* list is read.  The text is a line the prompt has read; input that ends  *)
(* before its newline is the stdin read failure, not a selection.          *)
(***************************************************************************)
C1_Selection ==
    SearchRun =>
      /\ comp = "weather" => ValidChoice /\ coord = candidates[Chosen.n].Coord
      /\ Issued("weather") => comp = "weather"
      /\ failure = "InvalidSelection" =>
            /\ ~ValidChoice
            /\ status = "exited"
            /\ calls = <<"search">>
      /\ (comp = "search" /\ status # "running" /\ failure # "StdinReadError") =>
            ~ValidChoice
      /\ ~(comp = "search" /\ status = "panic")

C1_Witness ==
    /\ SearchRun
    /\ Len(candidates) = 2
    /\ text = <<"2">>
    /\ coord = CandCoord(2)
    /\ calls = <<"search", "weather">>

(***************************************************************************)
(* C2: without auto and without search text, usage help is shown only for  *)
(* the coordinate that is 0.0 on both axes; every other (lat, lon) is      *)
(* passed to Weather Fetch with no resolution call.                        *)
(***************************************************************************)
C2_OnlyOriginFallsThrough ==
    (~auto /\ search = "" /\ pc # "main") =>
      /\ Printed("Usage") <=> (lat = 0 /\ lon = 0)
      /\ ~Printed("Usage") => coord = <<lat, lon>> /\ ~Issued("ip") /\ ~Issued("search")

(***************************************************************************)
(* C3 as stated: the exit code of a failed run is a function of the        *)
(* failure class alone: every component exits with the same code for that  *)
(* class, and no other class uses that code.                               *)
(***************************************************************************)
C3_CodePerClassAlone ==
    (status = "exited" /\ failure \in FailureClasses) =>
      /\ \A c \in Components : ExitCodeOf(c, failure) = exitCode
      /\ \A c \in Components : \A cl \in FailureClasses \ {failure} :
            ExitCodeOf(c, cl) # exitCode

(***************************************************************************)
(* C3 amended: every failure ends the run with os.Exit; no two failure     *)
(* classes share an exit code; the three transport classes, stdin failure  *)
(* and invalid selection have one code each whichever component raised     *)
(* them; a decode failure exits with 10 in the IP geolocator and with 4 in *)
(* location search and weather fetch.                                      *)
(***************************************************************************)
C3_CodePerClass ==
    (status = "exited") =>
      /\ failure \in FailureClasses
      /\ failure # "DecodeError" => \A c \in Components : ExitCodeOf(c, failure) = exitCode
      /\ failure = "DecodeError" => exitCode = (IF comp = "ip" THEN 10 ELSE 4)
      /\ \A c \in Components : \A cl \in FailureClasses \ {failure} :
            ExitCodeOf(c, cl) # exitCode

C3_Witness ==
    /\ status = "exited"
    /\ failure = "DecodeError"
    /\ comp = "ip"
    /\ exitCode = 10

(***************************************************************************)
(* C4: whenever the run is outside a Transport call, and in particular     *)
(* once the process has exited, the client and the response body acquired  *)
(* by the call have been released.                                         *)
(***************************************************************************)
C4_ResourcesReleased ==
    (status # "running" \/ pc \notin {"send", "await", "read"}) =>
      ~clientOpen /\ ~bodyOpen

(***************************************************************************)
(* C5: a run that ends with a decode failure has printed the raw response  *)
(* body, whichever component failed to decode.                             *)
(***************************************************************************)
C5_RawBodyDumped ==
    failure = "DecodeError" => Printed("RawBody") /\ LineOf("RawBody").txt = body.raw

(***************************************************************************)
(* C6: at most one network call is in flight; no call is repeated; the     *)
(* weather request is the last call and is issued only with a resolved     *)
(* coordinate (in a search run, after a valid selection); a report is      *)
(* printed only after the weather body was fetched and decoded; after a    *)
(* transport, decode, stdin or selection failure nothing of a report has   *)
(* been printed and nothing happens any more.                              *)
(***************************************************************************)
ReportStarted == Printed("Location") \/ Printed("Current Weather")

C6_State ==
    /\ outstanding \in {0, 1}
    /\ \A i, j \in 1..Len(calls) : i # j => calls[i] # calls[j]
    /\ \A i \in 1..Len(calls) : calls[i] = "weather" =>
          /\ i = Len(calls)
          /\ coord # NoCoord
          /\ auto => calls = <<"ip", "weather">> /\ coord \in IPCoords
          /\ SearchRun => /\ calls = <<"search", "weather">>
                          /\ ValidChoice
                          /\ coord = candidates[Chosen.n].Coord
    /\ ReportStarted =>
          /\ calls # <<>> /\ calls[Len(calls)] = "weather"
          /\ outstanding = 0
          /\ body.json /\ snap = body.w
          /\ failure \notin FailureClasses
    /\ failure \in FailureClasses =>
          /\ status = "exited"
          /\ outstanding = 0
          /\ ~ReportStarted

C6_FailFast ==
    []C6_State /\ [][status # "running" => UNCHANGED vars]_vars
               /\ [][failure' # "none" => status' # "running"]_vars

C6_Witness ==
    /\ status = "exited"
    /\ failure = "DecodeError"
    /\ calls = <<"search", "weather">>
    /\ ~ReportStarted

FixedOrder ==
    <<"Location", "Timezone Offset", "Current Weather", "Time", "Sunrise",
      "Sunset", "Temperature", "Feels Like", "Pressure", "Humidity",
      "Dew Point", "UV Index", "Clouds", "Visibility", "Wind Speed",
      "Wind Degrees">>

\* the report part of the output: everything from the Location line on
ReportLabels ==
    LET first == CHOOSE i \in 1..Len(out) : out[i].label = "Location"
    IN  [k \in 1..(Len(out) - first + 1) |-> out[first + k - 1].label]

DaysFromCivil(y, m, d) ==
    LET yy  == IF m <= 2 THEN y - 1 ELSE y
        era == yy \div 400
        yoe == yy - era * 400
        doy == (153 * (IF m > 2 THEN m - 3 ELSE m + 9) + 2) \div 5 + d - 1
        doe == yoe * 365 + yoe \div 4 - yoe \div 100 + doy
    IN  era * 146097 + doe - 719468

\* the printed clock <<h, mi, s>> is the time of day of the instant secs
ClockShows(h, mi, s, secs) ==
    /\ h \in 0..23 /\ mi \in 0..59 /\ s \in 0..59
    /\ h * 3600 + mi * 60 + s = secs % 86400

\* the line shows the instant secs; the date too when withDate
LineShows(label, withDate, secs) ==
    LET v == LineOf(label).val IN
    IF withDate
    THEN /\ Len(v) >= 6
         /\ v[2] \in 1..12 /\ v[3] \in 1..31
         /\ DaysFromCivil(v[1], v[2], v[3]) = secs \div 86400
         /\ ClockShows(v[4], v[5], v[6], secs)
    ELSE /\ Len(v) >= 3
         /\ ClockShows(v[1], v[2], v[3], secs)

ReportShows(shift) ==
    /\ LineShows("Time", TRUE, snap.Dt + shift)
    /\ LineShows("Sunrise", FALSE, snap.Sunrise + shift)
    /\ LineShows("Sunset", FALSE, snap.Sunset + shift)

\* the offset, held in half seconds, rounded down to whole seconds
FloorSeconds(off) == off \div 2

\* the whole number of seconds nearest to zero-ward of the offset
TruncSeconds(off) ==
    CHOOSE k \in (FloorSeconds(off) - 1)..(FloorSeconds(off) + 1) :
        IF off >= 0 THEN 2 * k <= off /\ off < 2 * k + 2
        ELSE 2 * k - 2 < off /\ off <= 2 * k

(***************************************************************************)
(* C8 as stated: the date and time printed for dt, sunrise and sunset are  *)
(* the wall clock of the timestamp shifted by exactly timezone_offset, for *)
(* every timestamp and offset.                                             *)
(***************************************************************************)
C8_ShiftedByExactOffset ==
    (status = "done" /\ ReportStarted) =>
        ReportShows(FloorSeconds(snap.TimezoneOffset))

(***************************************************************************)
(* C8 amended: the date and time printed for dt, sunrise and sunset are    *)
(* the wall clock of the timestamp shifted by timezone_offset truncated    *)
(* toward zero to whole seconds (exactly timezone_offset when it is a      *)
(* whole number); they do not depend on the host's zone, and timezone_name *)
(* appears only as the label of the lines.                                 *)
(***************************************************************************)
C8_ShiftedByTruncatedOffset ==
    (status = "done" /\ ReportStarted) =>
        /\ ReportShows(TruncSeconds(snap.TimezoneOffset))
        /\ \A l \in {"Time", "Sunrise", "Sunset"} : LineOf(l).txt = snap.Timezone
        /\ LineOf("Timezone Offset").val = <<TruncSeconds(snap.TimezoneOffset)>>

C8_Witness ==
    /\ status = "done"
    /\ hostTZ # 0
    /\ snap.Dt = 1700000000
    /\ snap.TimezoneOffset = 7200
    /\ snap.Timezone = "Europe/Paris"
    /\ LineOf("Time") = Line("Time", "Europe/Paris", <<2023, 11, 14, 23, 13, 20>>)

(***************************************************************************)
(* C9: no run ends in an unhandled crash: a run ends with a complete        *)
(* report, with usage help, or with one of the documented fatal exits.     *)
(***************************************************************************)
C9_NeverPanics ==
    /\ status \in {"running", "done", "exited"}
    /\ status = "exited" => failure \in FailureClasses
    /\ status = "done" => Printed("Usage") \/ Printed("-----------------------")

(***************************************************************************)
(* C10: the branch is chosen by the precedence auto, search, coordinate,   *)
(* usage; the calls of a run are a prefix of, and those of a successful    *)
(* run are exactly, IP-info then weather (auto), place search then weather *)
(* (search), weather alone (coordinate), none (usage); the flags of the    *)
(* branches of lower precedence are ignored; never more than two calls or  *)
(* more than one weather request.                                          *)
(***************************************************************************)
IsPrefix(p, q) == Len(p) <= Len(q) /\ \A i \in 1..Len(p) : p[i] = q[i]

Count(c) == Cardinality({i \in 1..Len(calls) : calls[i] = c})

C10_Dispatch ==
    /\ Len(calls) <= 2
    /\ Count("weather") <= 1
    /\ auto =>
          /\ IsPrefix(calls, <<"ip", "weather">>)
          /\ status = "done" => calls = <<"ip", "weather">>
          /\ coord # NoCoord => coord \in IPCoords
          /\ ~Printed("Usage") /\ ~Printed("Choose searched index: ")
    /\ (~auto /\ search # "") =>
          /\ IsPrefix(calls, <<"search", "weather">>)
          /\ status = "done" => calls = <<"search", "weather">>
          /\ coord # NoCoord => \E k \in 1..Len(candidates) : coord = candidates[k].Coord
          /\ ~Printed("Usage")
    /\ (~auto /\ search = "") =>
          /\ IsPrefix(calls, <<"weather">>)
          /\ status = "done" => (IF Printed("Usage") THEN calls = <<>>
                                 ELSE calls = <<"weather">>)
          /\ Printed("Usage") => calls = <<>> /\ status = "done" /\ coord = NoCoord
          /\ coord # NoCoord => coord = <<lat, lon>>

C10_Witness ==
    /\ auto
    /\ search = "Paris"
    /\ lat # 0 /\ lon # 0
    /\ status = "done"
    /\ calls = <<"ip", "weather">>
    /\ coord \in IPCoords

====
